---- MODULE Spec2Model ----
(***************************************************************************)
(* Model of the log tail server (log_server.py): the reverse chunked scan  *)
(* read_from_end, the pagination planner get_next_request and the handler  *)
(* get_log_file, over a small byte-addressable file.                       *)
(*                                                                         *)
(* A file is a sequence of bytes.  A request chain is a client that posts  *)
(* one request and then keeps re-submitting the next_request of each       *)
(* response.  One loop iteration of read_from_end is one step.             *)
(***************************************************************************)
EXTENDS Integers, Sequences, FiniteSets, TLC

(***************************************************************************)
(* Bounds of the model.                                                    *)
(***************************************************************************)
MaxFileLen == 3
MaxNumLines == 2
MaxCalls == 3
MaxIters == 4

(***************************************************************************)
(* Program constants (config.py).                                          *)
(***************************************************************************)
MAX_LINE_SIZE == 200000

(***************************************************************************)
(* Bytes.  10 is "\n"; 97 is "a"; 255 is a byte that is not valid UTF-8,   *)
(* which decode('utf-8', errors='ignore') drops.                           *)
(***************************************************************************)
NL == 10
LetterA == 97
BadByte == 255
Bytes == {NL, LetterA, BadByte}

\* Python's None for the optional integer and string fields of LogRequest.
None == -1

Min(a, b) == IF a <= b THEN a ELSE b
Max(a, b) == IF a >= b THEN a ELSE b

RECURSIVE AllFiles(_)
AllFiles(n) ==
    IF n = 0 THEN {<<>>}
    ELSE LET shorter == AllFiles(n - 1)
         IN  shorter \cup {Append(s, b) : s \in {t \in shorter : Len(t) = n - 1}, b \in Bytes}

Files == AllFiles(MaxFileLen)

RECURSIVE Reverse(_)
Reverse(s) == IF s = <<>> THEN <<>> ELSE Append(Reverse(Tail(s)), Head(s))

RECURSIVE SumLen(_)
SumLen(ls) == IF ls = <<>> THEN 0 ELSE Len(Head(ls)) + SumLen(Tail(ls))

(***************************************************************************)
(* bytes.decode('utf-8', errors='ignore'): invalid bytes are dropped.      *)
(***************************************************************************)
Decode(bs) == SelectSeq(bs, LAMBDA b : b # BadByte)

(***************************************************************************)
(* str.rfind: the 0-based index of the last occurrence, or -1.             *)
(***************************************************************************)
RFind(s, c) ==
    LET hits == {i \in 1..Len(s) : s[i] = c}
    IN  IF hits = {} THEN -1
        ELSE (CHOOSE i \in hits : \A j \in hits : j <= i) - 1

(***************************************************************************)
(* f.seek(position); f.read(size): the bytes [position, position + size)   *)
(* of the file that exist.                                                 *)
(***************************************************************************)
ReadBytes(f, position, size) ==
    SubSeq(f, position + 1, Min(position + size, Len(f)))

(***************************************************************************)
(* read_chunk: <<chunk, next_position>>.  The index of the last newline is *)
(* found in the decoded text and applied to the raw bytes.                 *)
(***************************************************************************)
read_chunk(f, position, size) ==
    LET chunk == ReadBytes(f, position, size)
        last_newline == RFind(Decode(chunk), NL)
    IN  IF last_newline = -1
        THEN <<chunk, position>>
        ELSE <<SubSeq(chunk, 1, Min(last_newline + 1, Len(chunk))),
               position + last_newline + 1>>

(***************************************************************************)
(* bytes.splitlines(keepends=True) over the model's bytes: a line ends     *)
(* after each "\n"; a non-empty unterminated tail is a line too.           *)
(***************************************************************************)
RECURSIVE SplitFrom(_, _)
SplitFrom(bs, cur) ==
    IF bs = <<>> THEN (IF cur = <<>> THEN <<>> ELSE <<cur>>)
    ELSE IF Head(bs) = NL
         THEN <<Append(cur, NL)>> \o SplitFrom(Tail(bs), <<>>)
         ELSE SplitFrom(Tail(bs), Append(cur, Head(bs)))

splitlines(bs) == SplitFrom(bs, <<>>)

(***************************************************************************)
(* regex_pattern.search(line.decode('utf-8', errors='ignore')): a pattern  *)
(* is modelled as one character that the decoded line must contain.        *)
(***************************************************************************)
Search(regex_pattern, line) ==
    \E i \in 1..Len(Decode(line)) : Decode(line)[i] = regex_pattern

FilterLines(buffer_lines, regex_pattern) ==
    IF regex_pattern # None
    THEN SelectSeq(buffer_lines, LAMBDA line : Search(regex_pattern, line))
    ELSE buffer_lines

(***************************************************************************)
(* lines[-num_lines:] as Python slices it: the last num_lines elements for *)
(* num_lines > 0, and the whole list for num_lines = 0.                    *)
(***************************************************************************)
LastSlice(lines, num_lines) ==
    IF num_lines = 0 THEN lines
    ELSE SubSeq(lines, Max(Len(lines) - num_lines, 0) + 1, Len(lines))

\* resp = lines[-num_lines:][-1::-1]
ResponseSlice(lines, num_lines) == Reverse(LastSlice(lines, num_lines))

\* next_offset = offset + sum(len(line) for line in resp)
NextOffset(offset, resp) == offset + SumLen(resp)

\* len(lines) > num_lines
EnoughLines(lines, num_lines) == Len(lines) > num_lines

(***************************************************************************)
(* str.strip() of a decoded line: leading and trailing newlines go.        *)
(***************************************************************************)
RECURSIVE LStrip(_)
LStrip(s) == IF s # <<>> /\ Head(s) = NL THEN LStrip(Tail(s)) ELSE s

Strip(s) == Reverse(LStrip(Reverse(LStrip(s))))

\* response_lines = [line.decode('utf-8', errors='ignore').strip() for line in lines]
ResponseLines(lines) == [i \in 1..Len(lines) |-> Strip(Decode(lines[i]))]

(***************************************************************************)
(* get_next_request: <<>> for None, else <<request>>.                      *)
(***************************************************************************)
\* A planner that copies the request without reducing its line count.
get_next_request_same_count(original_request, lines_retrieved, offset) ==
    IF original_request.num_lines <= lines_retrieved
    THEN <<>>
    ELSE <<[original_request EXCEPT !.offset = offset]>>

get_next_request(original_request, lines_retrieved, offset) ==
    IF original_request.num_lines <= lines_retrieved
    THEN <<>>
    ELSE <<[original_request EXCEPT
              !.num_lines = original_request.num_lines - lines_retrieved,
              !.offset = offset]>>

(***************************************************************************)
(* max_num_lines_read = min(num_lines, MAX_LINE_SIZE, page_size), after    *)
(* num_lines = int(num_lines) if num_lines else None.  min() over None     *)
(* raises TypeError: modelled as None.                                     *)
(***************************************************************************)
\* The cap computed without the page size: min(num_lines, MAX_LINE_SIZE).
MaxNumLinesReadNoPage(body) ==
    IF body.num_lines = None \/ body.num_lines = 0
    THEN None
    ELSE Min(body.num_lines, MAX_LINE_SIZE)

MaxNumLinesRead(body) ==
    IF body.num_lines = None \/ body.num_lines = 0
    THEN None
    ELSE Min(Min(body.num_lines, MAX_LINE_SIZE), body.page_size)

(***************************************************************************)
(* f.seek(-offset, os.SEEK_END) raises OSError when it would seek before   *)
(* the start of the file.                                                  *)
(***************************************************************************)
\* A seek that also refuses to land on the first byte of the file.
SeekFailsAtStart(f, offset) == offset >= Len(f)

SeekFails(f, offset) == offset > Len(f)

(***************************************************************************)
(* The body of the while loop of read_from_end (lines 92-116), from the    *)
(* loop state s = [position, lines, buffer] of the scan ctx.  timeout is   *)
(* read_time > DEFAULT_READ_TIMEOUT at this iteration.  exit is "" when    *)
(* the loop goes round again.                                              *)
(***************************************************************************)
\* A loop body that stops only on enough lines: the timeout test is lost.
LoopBodyWithoutTimeout(ctx, s, timeout) ==
    LET rc == read_chunk(ctx.file, s.position, ctx.chunk_size)
        buffer2 == rc[1] \o s.buffer
        lines2 == FilterLines(splitlines(buffer2), ctx.regex) \o s.lines
        resp == ResponseSlice(lines2, ctx.num_lines)
    IN  IF EnoughLines(lines2, ctx.num_lines)
        THEN [position |-> s.position, lines |-> lines2, buffer |-> buffer2,
              exit |-> "enough", ret_lines |-> resp,
              next_offset |-> NextOffset(ctx.offset, resp)]
        ELSE IF s.position = 0
        THEN [position |-> s.position, lines |-> lines2, buffer |-> buffer2,
              exit |-> "exhausted", ret_lines |-> lines2,
              next_offset |-> ctx.file_size]
        ELSE [position |-> Max(rc[2] - ctx.max_chunk_size, 0),
              lines |-> lines2, buffer |-> buffer2,
              exit |-> "", ret_lines |-> <<>>, next_offset |-> None]

LoopBody(ctx, s, timeout) ==
    LET rc == read_chunk(ctx.file, s.position, ctx.chunk_size)
        chunk == rc[1]
        next_position == rc[2]
        buffer2 == chunk \o s.buffer
        buffer_lines == FilterLines(splitlines(buffer2), ctx.regex)
        lines2 == buffer_lines \o s.lines
        resp == ResponseSlice(lines2, ctx.num_lines)
    IN  IF EnoughLines(lines2, ctx.num_lines) \/ timeout
        THEN [position |-> s.position, lines |-> lines2, buffer |-> buffer2,
              exit |-> IF timeout THEN "timeout" ELSE "enough",
              ret_lines |-> resp,
              next_offset |-> NextOffset(ctx.offset, resp)]
        ELSE IF s.position = 0
        THEN [position |-> s.position, lines |-> lines2, buffer |-> buffer2,
              exit |-> "exhausted", ret_lines |-> lines2,
              next_offset |-> ctx.file_size]
        ELSE [position |-> Max(next_position - ctx.max_chunk_size, 0),
              lines |-> lines2, buffer |-> buffer2,
              exit |-> "", ret_lines |-> <<>>, next_offset |-> None]

(***************************************************************************)
(* read_from_end's lines 78-90: the scan context and the first loop state. *)
(***************************************************************************)
ScanContext(f, mcs, nl, off, regex) ==
    LET fs == Len(f) - off
        pos == Max(fs - mcs, 0)
    IN  [file |-> f, max_chunk_size |-> mcs, num_lines |-> nl, offset |-> off,
         regex |-> regex, file_size |-> fs, position |-> pos,
         chunk_size |-> IF pos > 0 THEN mcs ELSE fs]

VARIABLES
    file,            \* the bytes of the log file
    max_chunk_size,  \* DEFAULT_CHUNK_SIZE of the configuration
    pc,              \* "idle", "scan" or "done"
    body,            \* the LogRequest being served
    num_lines,       \* read_from_end's num_lines (max_num_lines_read)
    file_size,       \* read_from_end's file_size: f.tell() after the seek
    position,
    chunk_size,
    lines,
    buffer,
    iters,           \* loop iterations of the current scan
    response,        \* the last response
    chain            \* one record per finished call of the chain

vars == <<file, max_chunk_size, pc, body, num_lines, file_size, position,
          chunk_size, lines, buffer, iters, response, chain>>

scanVars == <<num_lines, file_size, position, chunk_size, lines, buffer, iters>>

NoRequest == [logpath |-> "", num_lines |-> None, offset |-> 0,
              page_size |-> 1, regex |-> None]

NoResponse == [status |-> 0, data |-> <<>>, lines_retrieved |-> 0,
               next_request |-> <<>>]

Requests ==
    [logpath : {"test.log"},
     num_lines : {None} \cup (0..MaxNumLines),
     offset : 0..(Len(file) + 1),
     page_size : 1..MaxNumLines,
     regex : {None, LetterA}]

TypeOK ==
    /\ file \in Files
    /\ max_chunk_size \in 1..MaxFileLen
    /\ pc \in {"idle", "scan", "done"}
    /\ position \in 0..MaxFileLen
    /\ iters \in 0..(MaxIters + 1)
    /\ Len(chain) <= MaxCalls

Init ==
    /\ file \in Files
    /\ max_chunk_size \in 1..MaxFileLen
    /\ pc = "idle"
    /\ body = NoRequest
    /\ num_lines = 0
    /\ file_size = 0
    /\ position = 0
    /\ chunk_size = 0
    /\ lines = <<>>
    /\ buffer = <<>>
    /\ iters = 0
    /\ response = NoResponse
    /\ chain = <<>>

(***************************************************************************)
(* The end of a call: the handler's lines 166-176 after read_from_end      *)
(* returned <<ret_lines, next_offset>> by the exit path `exit`.            *)
(***************************************************************************)
Respond(ret_lines, next_offset, exit) ==
    LET response_lines == ResponseLines(ret_lines)
        next_request == get_next_request(body, Len(response_lines), next_offset)
    IN  /\ response' = [status |-> 200, data |-> response_lines,
                        lines_retrieved |-> Len(response_lines),
                        next_request |-> next_request]
        /\ chain' = Append(chain, [request |-> body, target |-> num_lines,
                                   lines |-> ret_lines,
                                   next_offset |-> next_offset,
                                   exit |-> exit,
                                   next_request |-> next_request])
        /\ pc' = "done"

\* An exception escapes the handler: the server answers 500.
Fail(b, exit) ==
    /\ response' = [status |-> 500, data |-> <<>>, lines_retrieved |-> 0,
                    next_request |-> <<>>]
    /\ chain' = Append(chain, [request |-> b, target |-> None, lines |-> <<>>,
                               next_offset |-> None, exit |-> exit,
                               next_request |-> <<>>])
    /\ pc' = "done"

(***************************************************************************)
(* get_log_file up to the first loop iteration of read_from_end.           *)
(***************************************************************************)
StartCall(b) ==
    /\ body' = b
    /\ IF MaxNumLinesRead(b) = None
       THEN /\ Fail(b, "TypeError")
            /\ UNCHANGED scanVars
       ELSE IF SeekFails(file, b.offset)
       THEN /\ Fail(b, "OSError")
            /\ UNCHANGED scanVars
       ELSE LET ctx == ScanContext(file, max_chunk_size, MaxNumLinesRead(b),
                                   b.offset, b.regex)
            IN
            /\ num_lines' = ctx.num_lines
            /\ file_size' = ctx.file_size
            /\ position' = ctx.position
            /\ chunk_size' = ctx.chunk_size
            /\ lines' = <<>>
            /\ buffer' = <<>>
            /\ iters' = 0
            /\ pc' = "scan"
            /\ UNCHANGED <<response, chain>>

get_log_file ==
    /\ pc = "idle"
    /\ \E b \in Requests : StartCall(b)
    /\ UNCHANGED <<file, max_chunk_size>>

(***************************************************************************)
(* One iteration of the while loop of read_from_end, and, when the loop    *)
(* ends, the rest of the handler.                                          *)
(***************************************************************************)
read_from_end(timeout) ==
    /\ pc = "scan"
    /\ iters <= MaxIters
    /\ iters < MaxIters \/ timeout
    /\ LET ctx == [file |-> file, max_chunk_size |-> max_chunk_size,
                   num_lines |-> num_lines, offset |-> body.offset,
                   regex |-> body.regex, file_size |-> file_size,
                   position |-> position, chunk_size |-> chunk_size]
           r == LoopBody(ctx, [position |-> position, lines |-> lines,
                               buffer |-> buffer], timeout)
       IN  /\ buffer' = r.buffer
           /\ lines' = r.lines
           /\ position' = r.position
           /\ iters' = iters + 1
           /\ IF r.exit # ""
              THEN Respond(r.ret_lines, r.next_offset, r.exit)
              ELSE UNCHANGED <<pc, response, chain>>
    /\ UNCHANGED <<file, max_chunk_size, body, num_lines, file_size, chunk_size>>

(***************************************************************************)
(* read_from_end run to its return as a function of its arguments, for a   *)
(* scan the clock does not interrupt before MaxIters iterations.           *)
(***************************************************************************)
RECURSIVE ScanLoop(_, _, _)
ScanLoop(ctx, s, n) ==
    LET r == LoopBody(ctx, s, n >= MaxIters)
    IN  IF r.exit # ""
        THEN [lines |-> r.ret_lines, next_offset |-> r.next_offset, exit |-> r.exit]
        ELSE ScanLoop(ctx, [position |-> r.position, lines |-> r.lines,
                            buffer |-> r.buffer], n + 1)

ScanRun(f, mcs, nl, off, regex) ==
    LET ctx == ScanContext(f, mcs, nl, off, regex)
    IN  ScanLoop(ctx, [position |-> ctx.position, lines |-> <<>>, buffer |-> <<>>], 0)

ScanStep == read_from_end(FALSE)

ScanTimeout == read_from_end(TRUE)

(***************************************************************************)
(* The client posts the next_request of the last response.                 *)
(***************************************************************************)
Resubmit ==
    /\ pc = "done"
    /\ response.next_request # <<>>
    /\ Len(chain) < MaxCalls
    /\ StartCall(response.next_request[1])
    /\ UNCHANGED <<file, max_chunk_size>>

Next == get_log_file \/ ScanStep \/ ScanTimeout \/ Resubmit

Spec == Init /\ [][Next]_vars

(***************************************************************************)
(* One call of the handler: a request and its scan, without the client's   *)
(* re-submissions.                                                         *)
(***************************************************************************)
ScanNext == get_log_file \/ ScanStep \/ ScanTimeout

ScanSpec == Init /\ [][ScanNext]_vars

(***************************************************************************)
(* Wall-clock time keeps advancing: a scan that keeps looping eventually   *)
(* makes an iteration at whose end read_time > DEFAULT_READ_TIMEOUT.  This *)
(* is weak fairness of ScanTimeout, with ENABLED <<ScanTimeout>>_vars      *)
(* written out as the guard of the iteration (the iteration always changes *)
(* iters).                                                                 *)
(***************************************************************************)
ScanTimeoutEnabled == pc = "scan" /\ iters <= MaxIters

FairScanSpec ==
    ScanSpec /\ ([]<>(~ScanTimeoutEnabled) \/ []<><<ScanTimeout>>_vars)

(***************************************************************************)
(* Reference notions the properties are stated against.                    *)
(***************************************************************************)

\* A straightforward reading of the whole file into lines, oldest first.
FileLines == splitlines(file)

\* The lines of the file before the effective end of file of a call.
EffectiveLines(offset) == splitlines(SubSeq(file, 1, Len(file) - offset))

Calls == 1..Len(chain)

\* The call returned a result (it raised no exception).
Returned(c) == c.exit \in {"enough", "timeout", "exhausted"}

\* The call returned a result and the clock did not interrupt it.
Completed(c) == c.exit \in {"enough", "exhausted"}

\* The last targetCount elements of a list (none when targetCount is 0).
LastN(s, n) == SubSeq(s, Max(Len(s) - n, 0) + 1, Len(s))

RECURSIVE Concat(_)
Concat(ls) == IF ls = <<>> THEN <<>> ELSE Head(ls) \o Concat(Tail(ls))

\* s occurs in t as a subsequence: in order, each element of t used once.
RECURSIVE IsSubseq(_, _)
IsSubseq(s, t) ==
    IF s = <<>> THEN TRUE
    ELSE IF t = <<>> THEN FALSE
    ELSE IF Head(s) = Head(t) THEN IsSubseq(Tail(s), Tail(t))
    ELSE IsSubseq(s, Tail(t))

Occurrences(s, x) == Cardinality({i \in 1..Len(s) : s[i] = x})

SameBag(s, t) ==
    /\ Len(s) = Len(t)
    /\ \A i \in 1..Len(s) : Occurrences(s, s[i]) = Occurrences(t, s[i])

RECURSIVE PagesUpTo(_)
PagesUpTo(n) == IF n = 0 THEN <<>> ELSE PagesUpTo(n - 1) \o chain[n].lines

LastCall == chain[Len(chain)]

(***************************************************************************)
(* C1.  For every file and every targetCount from 1 up to and including    *)
(* the file's total line count, a scan from offset 0 with no regex returns *)
(* exactly targetCount lines, newest first: the last targetCount lines of  *)
(* the file in reverse order.                                              *)
(***************************************************************************)
C1_ReverseReading ==
    \A i \in Calls :
        LET c == chain[i]
        IN  ( /\ c.request.offset = 0
              /\ c.request.regex = None
              /\ Completed(c)
              /\ c.target \in 1..Len(FileLines) )
            => ResponseLines(c.lines)
                 = ResponseLines(Reverse(LastN(FileLines, c.target)))

(***************************************************************************)
(* C2.  Pagination composition: when a no-regex request from offset 0 for  *)
(* n lines is answered by a first page of n1 lines and, on re-submitting   *)
(* its next_request, a second page of n2 lines with n1 + n2 = n, the two   *)
(* pages in order equal the first n lines of a single scan from offset 0   *)
(* asking for n lines directly.                                            *)
(***************************************************************************)
C2_PaginationComposition ==
    \A i \in Calls :
        (i + 1 \in Calls) =>
        LET p1 == chain[i]
            p2 == chain[i + 1]
            n == p1.request.num_lines
            single == ScanRun(file, max_chunk_size, n, 0, None)
        IN  ( /\ p1.request.offset = 0
              /\ p1.request.regex = None
              /\ Completed(p1)
              /\ Completed(p2)
              /\ p1.next_request = <<p2.request>>
              /\ Len(p1.lines) + Len(p2.lines) = n
              /\ single.exit # "timeout" )
            => /\ Len(single.lines) >= n
               /\ ResponseLines(p1.lines) \o ResponseLines(p2.lines)
                    = SubSeq(ResponseLines(single.lines), 1, n)

(***************************************************************************)
(* C3.  For every file and every targetCount greater than the file's total *)
(* line count, the scan (offset 0, no regex) returns all lines of the      *)
(* file, nextOffsetFromEnd is the file size, and the response carries no   *)
(* continuation request.                                                   *)
(***************************************************************************)
C3_ExhaustedNoContinuation ==
    \A i \in Calls :
        LET c == chain[i]
        IN  ( /\ c.request.offset = 0
              /\ c.request.regex = None
              /\ Completed(c)
              /\ c.target > Len(FileLines) )
            => /\ ResponseLines(c.lines) \in {ResponseLines(FileLines),
                                             ResponseLines(Reverse(FileLines))}
               /\ c.next_offset = Len(file)
               /\ c.next_request = <<>>

(***************************************************************************)
(* C4.  A scan with a regex returns only lines that match it, and when     *)
(* targetCount exceeds the number of matching lines of the file the number *)
(* of lines returned (from offset 0) equals the number a brute-force pass  *)
(* over the whole file finds, each matching line counted once.             *)
(***************************************************************************)
C4_RegexBruteForce ==
    \A i \in Calls :
        LET c == chain[i]
            matching == FilterLines(FileLines, c.request.regex)
        IN  (c.request.regex # None /\ Returned(c))
            => /\ \A k \in 1..Len(c.lines) : Search(c.request.regex, c.lines[k])
               /\ ( /\ c.request.offset = 0
                    /\ Completed(c)
                    /\ c.target > Len(matching) )
                  => Len(c.lines) = Len(matching)

(***************************************************************************)
(* C5.  Every result of read_from_end lists its lines newest first, on     *)
(* every exit path: no returned line stands before a returned line that is *)
(* older than it (one that lies wholly earlier in the file).               *)
(***************************************************************************)
C5_NewestFirst ==
    \A i \in Calls :
        LET c == chain[i]
            data == ResponseLines(c.lines)
            older == ResponseLines(EffectiveLines(c.request.offset))
            Places(x) == {p \in 1..Len(older) : older[p] = x}
            StrictlyOlder(x, y) ==
                /\ Places(x) # {}
                /\ Places(y) # {}
                /\ \A p \in Places(x) : \A q \in Places(y) : p < q
        IN  Returned(c)
            => \A k \in 1..Len(data) : \A l \in 1..Len(data) :
                   k < l => ~StrictlyOlder(data[k], data[l])

(***************************************************************************)
(* C6.  For every request with num_lines > 0 and page_size > 0 and every   *)
(* file, offset, regex and exit path of the scan, lines_retrieved <=       *)
(* min(num_lines, MAX_LINE_SIZE, page_size).                               *)
(***************************************************************************)
C6_LinesWithinCap ==
    (pc = "done" /\ response.status = 200 /\ body.num_lines > 0 /\ body.page_size > 0)
    => /\ response.lines_retrieved = Len(response.data)
       /\ response.lines_retrieved <= body.num_lines
       /\ response.lines_retrieved <= MAX_LINE_SIZE
       /\ response.lines_retrieved <= body.page_size

\* More lines than the cap were collected and the response was cut to the cap.
C6_Witness ==
    /\ pc = "done"
    /\ response.status = 200
    /\ LastCall.exit = "enough"
    /\ body.page_size < body.num_lines
    /\ Len(lines) > body.page_size
    /\ response.lines_retrieved = body.page_size

(***************************************************************************)
(* C7.  On an unchanged file, across a chain of calls in which each call's *)
(* offset is the nextOffsetFromEnd the previous call returned, no call     *)
(* returns a next offset smaller than the offset it was started with.      *)
(***************************************************************************)
C7_OffsetMonotone ==
    (chain # <<>> /\ chain[1].request.offset = 0)
    => \A i \in Calls :
           Returned(chain[i]) => chain[i].next_offset >= chain[i].request.offset

(***************************************************************************)
(* C8.  In a chain of calls from offset 0 on an unchanged file, each made  *)
(* with the previous response's continuation request and none timing out,  *)
(* no line is returned by two different calls and no (matching) line      *)
(* between the newest and the oldest returned line is omitted: when each   *)
(* page by itself is a run of consecutive (matching) lines of the file,    *)
(* the pages returned so far are together such a run.                      *)
(***************************************************************************)
C8_NoDuplicateNoDrop ==
    LET matching == ResponseLines(FilterLines(FileLines, chain[1].request.regex))
        IsRun(returned) ==
            \E lo \in 1..(Len(matching) + 1) :
                /\ lo + Len(returned) - 1 <= Len(matching)
                /\ SameBag(returned, SubSeq(matching, lo, lo + Len(returned) - 1))
    IN  ( /\ chain # <<>>
          /\ chain[1].request.offset = 0
          /\ \A i \in Calls : /\ Completed(chain[i])
                              /\ IsRun(ResponseLines(chain[i].lines)) )
        => IsRun(ResponseLines(PagesUpTo(Len(chain))))

(***************************************************************************)
(* C9.  A scan started with startOffsetFromEnd greater than the file size  *)
(* clamps the offset and returns normally with an empty list of lines.     *)
(***************************************************************************)
C9_OffsetClamped ==
    \A i \in Calls :
        LET c == chain[i]
        IN  (c.request.offset > Len(file) /\ c.exit # "TypeError")
            => Returned(c) /\ c.lines = <<>>

(***************************************************************************)
(* C10.  A scan from offset 0 of a file whose size is exactly one chunk,   *)
(* of a file with no trailing newline and of an empty file raises no       *)
(* error; for the empty file the result is zero lines and                  *)
(* nextOffsetFromEnd = 0.                                                  *)
(***************************************************************************)
C10_EdgeFiles ==
    \A i \in Calls :
        LET c == chain[i]
        IN  ( /\ c.request.offset = 0
              /\ c.exit # "TypeError"
              /\ \/ Len(file) = max_chunk_size
                 \/ file = <<>>
                 \/ file[Len(file)] # NL )
            => /\ Returned(c)
               /\ file = <<>> => (c.lines = <<>> /\ c.next_offset = 0)

\* The scan of an empty file has returned by reaching position 0.
C10_Witness ==
    /\ pc = "done"
    /\ file = <<>>
    /\ LastCall.request.offset = 0
    /\ LastCall.exit = "exhausted"
    /\ response.status = 200
    /\ response.data = <<>>

(***************************************************************************)
(* C11.  get_next_request returns no continuation when lines_retrieved >=  *)
(* the request's num_lines; otherwise it returns a request whose num_lines *)
(* is the original num_lines minus lines_retrieved (hence > 0), whose      *)
(* offset is the scan's returned next offset and whose logpath, page_size  *)
(* and regex are the original's; the original request is left unmodified.  *)
(***************************************************************************)
C11_NextRequest ==
    [][ (pc = "scan" /\ pc' = "done")
        => LET retrieved == response'.lines_retrieved
               returned == chain'[Len(chain')]
               next == response'.next_request
           IN  /\ body' = body
               /\ returned.request = body
               /\ IF retrieved >= body.num_lines
                  THEN next = <<>>
                  ELSE /\ Len(next) = 1
                       /\ next[1].num_lines = body.num_lines - retrieved
                       /\ next[1].num_lines > 0
                       /\ next[1].offset = returned.next_offset
                       /\ next[1].logpath = body.logpath
                       /\ next[1].page_size = body.page_size
                       /\ next[1].regex = body.regex ]_vars

\* A response that retrieved some lines and carries a continuation request.
C11_Witness ==
    /\ pc = "done"
    /\ response.status = 200
    /\ response.lines_retrieved > 0
    /\ response.next_request # <<>>
    /\ response.next_request[1].num_lines = body.num_lines - response.lines_retrieved
    /\ body.regex # None

(***************************************************************************)
(* C12.  Within one scan, whenever a loop iteration ends with no stop      *)
(* condition met and position > 0, the next chunk read starts at           *)
(* max(position - chunkSize, 0) and does not extend past the previous      *)
(* position, so position strictly decreases from each chunk read to the    *)
(* next and no byte is read twice.                                         *)
(***************************************************************************)
C12_ChunkProgress ==
    [][ (pc = "scan" /\ pc' = "scan")
        => /\ position' = Max(position - max_chunk_size, 0)
           /\ position' + chunk_size' <= position
           /\ position' < position ]_vars

(***************************************************************************)
(* C13.  Chunk-size independence: for every file, start offset,            *)
(* targetCount and regex, a scan the clock does not interrupt returns the  *)
(* same lines and the same next offset as the scan that reads the whole    *)
(* effective file as one chunk.                                            *)
(***************************************************************************)
C13_ChunkSizeIndependence ==
    \A i \in Calls :
        LET c == chain[i]
            one == ScanRun(file, Max(Len(file), 1), c.target,
                           c.request.offset, c.request.regex)
        IN  Completed(c)
            => /\ c.lines = one.lines
               /\ c.next_offset = one.next_offset

(***************************************************************************)
(* C14.  At the end of every loop iteration of a scan the accumulated list *)
(* `lines` is in file order with no line of the file appearing twice, and  *)
(* every element except possibly the first is a complete,                  *)
(* newline-terminated line of the file.                                    *)
(***************************************************************************)
C14_LineBuffer ==
    ( /\ iters >= 1
      /\ pc = "scan" \/ (pc = "done" /\ Returned(LastCall))
      /\ lines # <<>> )
    => /\ IsSubseq(Tail(lines),
                   FilterLines(EffectiveLines(body.offset), body.regex))
       /\ \A k \in 2..Len(lines) : lines[k][Len(lines[k])] = NL

(***************************************************************************)
(* C15.  Cursor alignment: when a no-regex scan stops because more than    *)
(* targetCount lines were collected, the file bytes in                     *)
(* [fileSize - nextOffsetFromEnd, fileSize - startOffsetFromEnd) are       *)
(* exactly the returned lines concatenated in file order.                  *)
(***************************************************************************)
C15_CursorAlignment ==
    \A i \in Calls :
        LET c == chain[i]
        IN  (c.exit = "enough" /\ c.request.regex = None)
            => /\ c.next_offset <= Len(file)
               /\ Concat(Reverse(c.lines))
                    = SubSeq(file, Len(file) - c.next_offset + 1,
                             Len(file) - c.request.offset)

(***************************************************************************)
(* C17.  Pagination chains end; in particular, once a call has scanned     *)
(* back to position 0 (file exhausted), no later call of the chain starts  *)
(* before the start of the file again: every later call has the whole file *)
(* behind its offset.                                                      *)
(***************************************************************************)
C17_NoRestart ==
    \A i \in Calls : \A j \in Calls :
        (i < j /\ chain[i].exit = "exhausted")
        => chain[j].request.offset >= Len(file)

(***************************************************************************)
(* C18.  For a non-empty file that contains a newline and whose last line  *)
(* is not newline-terminated, a scan from offset 0 with no regex returns   *)
(* that unterminated last line as the first (newest) line of its result.   *)
(***************************************************************************)
C18_UnterminatedLastLine ==
    \A i \in Calls :
        LET c == chain[i]
        IN  ( /\ c.request.offset = 0
              /\ c.request.regex = None
              /\ Completed(c)
              /\ \E k \in 1..Len(file) : file[k] = NL
              /\ file[Len(file)] # NL )
            => /\ c.lines # <<>>
               /\ c.lines[1] = FileLines[Len(FileLines)]

(***************************************************************************)
(* C19.  When the request's num_lines is null or 0 the handler treats the  *)
(* line count as unbounded instead of erroring: the request completes with *)
(* a normal response whose number of lines is limited only by              *)
(* MAX_LINE_SIZE and page_size.                                            *)
(***************************************************************************)
C19_UnboundedFallback ==
    \A i \in Calls :
        LET c == chain[i]
        IN  ( /\ c.request.num_lines \in {None, 0}
              /\ c.request.offset <= Len(file) )
            => /\ Returned(c)
               /\ Len(c.lines) <= Min(MAX_LINE_SIZE, c.request.page_size)

(***************************************************************************)
(* C16.  Every scan eventually terminates and returns a result rather than *)
(* an error, for every file, chunk size and regex: assuming only that      *)
(* wall-clock time keeps advancing, the loop ends by collecting more than  *)
(* targetCount lines, by reaching position 0 or by the read-timeout check  *)
(* made after each chunk, and on the timeout exit it returns the (newest   *)
(* targetCount of the) lines accumulated so far.                           *)
(***************************************************************************)
C16_ScanTerminates ==
    /\ (pc = "scan") ~> (pc = "done")
    /\ [][ (pc = "scan" /\ pc' = "done")
           => LET returned == chain'[Len(chain')]
              IN  /\ Returned(returned)
                  /\ returned.exit = "timeout"
                     => returned.lines = Reverse(LastN(lines', num_lines)) ]_vars

\* A scan of several chunks in which no line matches was ended by the timeout.
C16_Witness ==
    /\ pc = "done"
    /\ LastCall.exit = "timeout"
    /\ LastCall.lines = <<>>
    /\ body.regex # None
    /\ iters = MaxIters + 1
    /\ position > 0

====
